---------------------------- MODULE Spec2Model ----------------------------
(***************************************************************************)
(* Model of the ssg content pipeline (kvnloughead/ssg):                    *)
(*   internal/parser/parser.go     Parse, ParseFile, generateSlug          *)
(*   internal/builder/builder.go   Build, parseAllPosts, filterDrafts,     *)
(*                                 copyStatic                              *)
(*   internal/renderer/renderer.go RenderIndex, RenderPost, renderToFile   *)
(*   package ssg (unnamed/part_002) newRenderer, renderIndex, renderPost,  *)
(*                                 renderToFile with the cloned layout     *)
(*                                                                         *)
(* Byte strings are sequences of one-character strings.  Timestamps are    *)
(* whole years (year 1 is Go's zero time.Time), written in RFC 3339 as     *)
(* YYYY-01-01T00:00:00Z.                                                   *)
(***************************************************************************)
EXTENDS Integers, Sequences, FiniteSets, TLC

VARIABLES
    \* ---- one call of Parser.ParseFile / Parser.Parse ----
    input,      \* what the raw bytes were made from (bytes, a document, a path)
    raw,        \* content []byte
    path,       \* path string
    readable,   \* whether os.ReadFile(path) succeeds
    ppc,        \* "call" before the call, "return" after it, "idle" when unused
    ret         \* the returned (*Post, error)

pvars == <<input, raw, path, readable, ppc, ret>>

VARIABLES
    \* ---- the file system Build works on ----
    contentDir, \* content/posts: state "missing", "unreadable" or "ok", and its entries
    static,     \* the static tree: whether it exists, and its files in walk order
    out,        \* outputDir: whether it exists, and its files
    \* ---- one run of Build ----
    pc,         \* the step Build is about to take; "done" or "failed" at its end
    allPosts,   \* posts, as parseAllPosts returned them
    publishedPosts, \* publishedPosts: filtered, then sorted in place
    nextPost,   \* index of the next post the render loop takes
    buildErr,   \* the error Build returns
    log         \* the steps taken so far, in order

fsvars == <<contentDir, static, out>>

bvars == <<pc, allPosts, publishedPosts, nextPost, buildErr, log>>

VARIABLES
    \* ---- the renderer of package ssg, and what Build started from ----
    outBefore,  \* outputDir as it was when Build was called
    templates,  \* r.templates: the template set newRenderer loaded
    calls,      \* the calls of renderIndex / renderPost made, with what each returned
    \* ---- one run of the command ssg ----
    cli         \* the process of main: its stage, the core operation it called,
                \* what it printed to stdout and stderr, and its exit status

cvars == <<outBefore, templates, calls, cli>>

vars == <<pvars, fsvars, bvars, cvars>>

\* no command is running
NoProcess ==
    [stage |-> "none", called |-> "none", stdout |-> <<>>, stderr |-> <<>>, status |-> -1]

(***************************************************************************)
(* Bounds                                                                  *)
(***************************************************************************)
MaxRaw == 7         \* longest arbitrary byte string handed to Parse
MaxYear == 3        \* timestamps are the years 1..MaxYear
MaxCalls == 2       \* calls of renderIndex / renderPost on one renderer
MaxTitle == 4       \* longest title handed to NewPost

(***************************************************************************)
(* Byte-string helpers (Go: bytes, strings)                                *)
(***************************************************************************)
Nil == [nil |-> TRUE]

\* s[i:] with a 0-based offset i
From(s, i) == SubSeq(s, i + 1, Len(s))

\* s[:i] with a 0-based offset i
Upto(s, i) == SubSeq(s, 1, i)

HasPrefix(s, p) == Len(s) >= Len(p) /\ SubSeq(s, 1, Len(p)) = p

HasSuffix(s, p) == Len(s) >= Len(p) /\ SubSeq(s, Len(s) - Len(p) + 1, Len(s)) = p

TrimSuffix(s, p) == IF HasSuffix(s, p) THEN Upto(s, Len(s) - Len(p)) ELSE s

\* bytes.Index: 0-based offset of the first occurrence of sep in s, or -1
Index(s, sep) ==
    LET hits == {i \in 0..(Len(s) - Len(sep)) : SubSeq(s, i + 1, i + Len(sep)) = sep}
    IN  IF hits = {} THEN -1 ELSE CHOOSE i \in hits : \A j \in hits : i <= j

\* bytes.Count: number of non-overlapping occurrences of sep in s
RECURSIVE Count(_, _)
Count(s, sep) ==
    LET m == Index(s, sep)
    IN  IF m < 0 THEN 0 ELSE 1 + Count(From(s, m + Len(sep)), sep)

\* the loop of bytes.genSplit: at most n more cuts, then the rest
RECURSIVE SplitLoop(_, _, _)
SplitLoop(s, sep, n) ==
    LET m == Index(s, sep)
    IN  IF n = 0 \/ m < 0
        THEN <<s>>
        ELSE <<Upto(s, m)>> \o SplitLoop(From(s, m + Len(sep)), sep, n - 1)

\* SplitN, were it to cut at every occurrence of sep whatever n is
SplitN_EveryMarker(s, sep, n) == SplitLoop(s, sep, Len(s))

\* bytes.SplitN(s, sep, n) for n > 0 and a non-empty sep
SplitN(s, sep, n) ==
    LET k == IF n > Len(s) + 1 THEN Len(s) + 1 ELSE n
    IN  SplitLoop(s, sep, k - 1)

IsSpace(c) == c \in {" ", "\n", "\t", "\r"}

RECURSIVE TrimLeft(_)
TrimLeft(s) == IF s # <<>> /\ IsSpace(Head(s)) THEN TrimLeft(Tail(s)) ELSE s

RECURSIVE TrimRight(_)
TrimRight(s) ==
    IF s # <<>> /\ IsSpace(s[Len(s)]) THEN TrimRight(Upto(s, Len(s) - 1)) ELSE s

\* bytes.TrimSpace
TrimSpace(s) == TrimRight(TrimLeft(s))

\* strings.Join
RECURSIVE Join(_, _)
Join(elems, sep) ==
    IF elems = <<>> THEN <<>>
    ELSE IF Len(elems) = 1 THEN elems[1]
    ELSE elems[1] \o sep \o Join(Tail(elems), sep)


(***************************************************************************)
(* Text constants                                                          *)
(***************************************************************************)
Marker == <<"-", "-", "-">>

NL == <<"\n">>

KeyTitle == <<"t", "i", "t", "l", "e">>

KeyDate == <<"d", "a", "t", "e">>

KeyDescription == <<"d", "e", "s", "c", "r", "i", "p", "t", "i", "o", "n">>

KeyTags == <<"t", "a", "g", "s">>

KeyDraft == <<"d", "r", "a", "f", "t">>

TextTrue == <<"t", "r", "u", "e">>

TextFalse == <<"f", "a", "l", "s", "e">>

TextNull == <<"n", "u", "l", "l">>

Digits == <<"0", "1", "2", "3", "4", "5", "6", "7", "8", "9">>

IsDigit(c) == \E i \in 1..Len(Digits) : Digits[i] = c

DigitVal(c) == (CHOOSE i \in 1..Len(Digits) : Digits[i] = c) - 1

\* the month, day and time of every timestamp of the model: -01-01T00:00:00Z
StampTail ==
    <<"-", "0", "1", "-", "0", "1", "T", "0", "0", ":", "0", "0", ":", "0", "0", "Z">>

(***************************************************************************)
(* Errors                                                                  *)
(***************************************************************************)
NoErr == "nil"

ErrReadingFile == "reading file"

ErrInvalidFrontmatter == "invalid frontmatter format"

ErrParsingFrontmatter == "parsing frontmatter"

ErrConvertingMarkdown == "converting markdown"

(***************************************************************************)
(* time.Time in RFC 3339                                                   *)
(***************************************************************************)
\* the zero time.Time, 0001-01-01T00:00:00Z
ZeroTime == 1

\* time.Time.Format(time.RFC3339)
FormatRFC3339(y) ==
    << Digits[((y \div 1000) % 10) + 1], Digits[((y \div 100) % 10) + 1],
       Digits[((y \div 10) % 10) + 1], Digits[(y % 10) + 1] >> \o StampTail

\* yaml.v3's timestamp scalar: four digits of year, then the fixed tail
ParseTimestamp(v) ==
    IF /\ Len(v) = 4 + Len(StampTail)
       /\ \A i \in 1..4 : IsDigit(v[i])
       /\ From(v, 4) = StampTail
    THEN [err |-> NoErr,
          val |-> 1000 * DigitVal(v[1]) + 100 * DigitVal(v[2])
                  + 10 * DigitVal(v[3]) + DigitVal(v[4])]
    ELSE [err |-> ErrParsingFrontmatter, val |-> ZeroTime]

(***************************************************************************)
(* yaml.Unmarshal(parts[1], &fm): a block mapping of "key: value" lines    *)
(* with plain and double-quoted scalars and a flow sequence for tags       *)
(***************************************************************************)
\* the zero value of Frontmatter
ZeroFrontmatter ==
    [Title |-> <<>>, Date |-> ZeroTime, Description |-> <<>>, Tags |-> <<>>,
     Draft |-> FALSE]

IsNull(v) == v = <<>> \/ v = <<"~">> \/ v = TextNull

\* a scalar decoded into a string field
DecodeString(v) ==
    IF IsNull(v) THEN [err |-> NoErr, val |-> <<>>]
    ELSE IF Head(v) = "\""
    THEN IF Len(v) >= 2 /\ v[Len(v)] = "\"" /\ Index(SubSeq(v, 2, Len(v) - 1), <<"\"">>) < 0
         THEN [err |-> NoErr, val |-> SubSeq(v, 2, Len(v) - 1)]
         ELSE [err |-> ErrParsingFrontmatter, val |-> <<>>]
    ELSE IF Head(v) = "#" THEN [err |-> NoErr, val |-> <<>>]
    ELSE IF \/ v = <<"-">> \/ HasPrefix(v, <<"-", " ">>)
            \/ Head(v) \in {"[", "]", "{", "}", "'", "&", "*", "!", "|", ">", "%", "@"}
            \/ Index(v, <<":", " ">>) >= 0 \/ HasSuffix(v, <<":">>)
    THEN [err |-> ErrParsingFrontmatter, val |-> <<>>]
    ELSE IF Index(v, <<" ", "#">>) >= 0
    THEN [err |-> NoErr, val |-> TrimRight(Upto(v, Index(v, <<" ", "#">>)))]
    ELSE [err |-> NoErr, val |-> v]

\* a scalar decoded into a time.Time field
DecodeTime(v) ==
    IF IsNull(v) THEN [err |-> NoErr, val |-> ZeroTime] ELSE ParseTimestamp(v)

RECURSIVE TrimEach(_)
TrimEach(items) ==
    IF items = <<>> THEN <<>> ELSE <<TrimSpace(Head(items))>> \o TrimEach(Tail(items))

\* a flow sequence [a, b] decoded into a []string field
DecodeTags(v) ==
    IF IsNull(v) THEN [err |-> NoErr, val |-> <<>>]
    ELSE IF Len(v) >= 2 /\ Head(v) = "[" /\ v[Len(v)] = "]"
    THEN LET inner == TrimSpace(SubSeq(v, 2, Len(v) - 1))
             items == TrimEach(SplitLoop(inner, <<",">>, Len(inner)))
         IN  IF inner = <<>> THEN [err |-> NoErr, val |-> <<>>]
             ELSE IF \E i \in 1..Len(items) : items[i] = <<>> \/ Index(items[i], <<"[">>) >= 0
             THEN [err |-> ErrParsingFrontmatter, val |-> <<>>]
             ELSE [err |-> NoErr, val |-> items]
    ELSE [err |-> ErrParsingFrontmatter, val |-> <<>>]

\* a scalar decoded into a bool field
DecodeBool(v) ==
    IF IsNull(v) THEN [err |-> NoErr, val |-> FALSE]
    ELSE IF v = TextTrue THEN [err |-> NoErr, val |-> TRUE]
    ELSE IF v = TextFalse THEN [err |-> NoErr, val |-> FALSE]
    ELSE [err |-> ErrParsingFrontmatter, val |-> FALSE]

\* one line of the block: blank, or "key: value" (the value may be empty)
SplitKeyValue(line) ==
    LET t == TrimRight(line)
        m == Index(t, <<":", " ">>)
    IN  IF m >= 0 THEN [ok |-> TRUE, key |-> Upto(t, m), val |-> TrimSpace(From(t, m + 2))]
        ELSE IF HasSuffix(t, <<":">>)
        THEN [ok |-> TRUE, key |-> Upto(t, Len(t) - 1), val |-> <<>>]
        ELSE [ok |-> FALSE, key |-> <<>>, val |-> <<>>]

\* the field a key sets, decoded; unknown keys are ignored
SetField(fm, key, v) ==
    IF key = KeyTitle
    THEN LET d == DecodeString(v) IN [err |-> d.err, fm |-> [fm EXCEPT !.Title = d.val]]
    ELSE IF key = KeyDate
    THEN LET d == DecodeTime(v) IN [err |-> d.err, fm |-> [fm EXCEPT !.Date = d.val]]
    ELSE IF key = KeyDescription
    THEN LET d == DecodeString(v) IN [err |-> d.err, fm |-> [fm EXCEPT !.Description = d.val]]
    ELSE IF key = KeyTags
    THEN LET d == DecodeTags(v) IN [err |-> d.err, fm |-> [fm EXCEPT !.Tags = d.val]]
    ELSE IF key = KeyDraft
    THEN LET d == DecodeBool(v) IN [err |-> d.err, fm |-> [fm EXCEPT !.Draft = d.val]]
    ELSE [err |-> NoErr, fm |-> fm]

RECURSIVE DecodeLines(_, _, _)
DecodeLines(lines, fm, seen) ==
    IF lines = <<>> THEN [err |-> NoErr, fm |-> fm]
    ELSE IF TrimSpace(Head(lines)) = <<>> THEN DecodeLines(Tail(lines), fm, seen)
    ELSE LET kv == SplitKeyValue(Head(lines))
         IN  IF ~kv.ok \/ kv.key = <<>> \/ IsSpace(Head(Head(lines))) \/ kv.key \in seen
             THEN [err |-> ErrParsingFrontmatter, fm |-> ZeroFrontmatter]
             ELSE LET r == SetField(fm, kv.key, kv.val)
                  IN  IF r.err # NoErr
                      THEN [err |-> r.err, fm |-> ZeroFrontmatter]
                      ELSE DecodeLines(Tail(lines), r.fm, seen \cup {kv.key})

Unmarshal(block) ==
    DecodeLines(SplitLoop(block, NL, Len(block)), ZeroFrontmatter, {})


(***************************************************************************)
(* parser.go: generateSlug, Parse, ParseFile                               *)
(***************************************************************************)
\* filepath.Base
RECURSIVE StripSlashes(_)
StripSlashes(p) ==
    IF p # <<>> /\ p[Len(p)] = "/" THEN StripSlashes(Upto(p, Len(p) - 1)) ELSE p

RECURSIVE LastElem(_)
LastElem(p) ==
    LET m == Index(p, <<"/">>) IN IF m < 0 THEN p ELSE LastElem(From(p, m + 1))

Base(p) ==
    IF p = <<>> THEN <<".">>
    ELSE LET q == StripSlashes(p)
         IN  IF q = <<>> THEN <<"/">> ELSE LastElem(q)

\* filepath.Ext: from the last dot of the last element on
RECURSIVE Ext(_)
Ext(p) ==
    IF p = <<>> \/ p[Len(p)] = "/" THEN <<>>
    ELSE IF p[Len(p)] = "." THEN <<".">>
    ELSE LET e == Ext(Upto(p, Len(p) - 1))
         IN  IF e = <<>> THEN <<>> ELSE e \o <<p[Len(p)]>>

generateSlug(p) ==
    LET filename == Base(p)
        slug == TrimSuffix(filename, Ext(filename))
    IN  IF Len(slug) > 11 /\ slug[5] = "-" /\ slug[8] = "-" /\ slug[11] = "-"
        THEN From(slug, 11)
        ELSE slug

\* goldmark's Convert into a bytes.Buffer: it cannot fail; the produced
\* HTML is kept as a value tagged with the markdown it was made from
Convert(markdown) == [err |-> NoErr, html |-> [htmlOf |-> markdown]]

\* the post Parse builds from a decoded header and the trimmed body
MakePost(fm, markdown, html, p) ==
    [Title |-> fm.Title,
     Date |-> fm.Date,
     Slug |-> generateSlug(p),
     Description |-> fm.Description,
     Tags |-> fm.Tags,
     Keywords |-> Join(fm.Tags, <<",", " ">>),
     Draft |-> fm.Draft,
     Content |-> html,
     RawContent |-> markdown]

\* Parse, were it to reject text before the first marker
Parse_StrictPrefix(content, p) ==
    LET parts == SplitN(content, Marker, 3)
    IN  IF Len(parts) < 3 \/ TrimSpace(parts[1]) # <<>>
        THEN [post |-> Nil, err |-> ErrInvalidFrontmatter]
        ELSE LET u == Unmarshal(parts[2])
                 markdown == TrimSpace(parts[3])
             IN  IF u.err # NoErr
                 THEN [post |-> Nil, err |-> ErrParsingFrontmatter]
                 ELSE [post |-> MakePost(u.fm, markdown, Convert(markdown).html, p),
                       err |-> NoErr]

\* Parse, were it to treat title and date as required
Parse_RequireFields(content, p) ==
    LET parts == SplitN(content, Marker, 3)
    IN  IF Len(parts) < 3
        THEN [post |-> Nil, err |-> ErrInvalidFrontmatter]
        ELSE LET u == Unmarshal(parts[2])
                 markdown == TrimSpace(parts[3])
             IN  IF u.err # NoErr \/ u.fm.Title = <<>> \/ u.fm.Date = ZeroTime
                 THEN [post |-> Nil, err |-> ErrParsingFrontmatter]
                 ELSE [post |-> MakePost(u.fm, markdown, Convert(markdown).html, p),
                       err |-> NoErr]

Parse(content, p) ==
    LET parts == SplitN(content, Marker, 3)
    IN  IF Len(parts) < 3
        THEN [post |-> Nil, err |-> ErrInvalidFrontmatter]
        ELSE LET u == Unmarshal(parts[2])
                 markdown == TrimSpace(parts[3])
                 c == Convert(markdown)
             IN  IF u.err # NoErr
                 THEN [post |-> Nil, err |-> ErrParsingFrontmatter]
                 ELSE IF c.err # NoErr
                 THEN [post |-> Nil, err |-> ErrConvertingMarkdown]
                 ELSE [post |-> MakePost(u.fm, markdown, c.html, p), err |-> NoErr]

\* ParseFile: one os.ReadFile, then Parse
ParseFile(canRead, content, p) ==
    IF ~canRead THEN [post |-> Nil, err |-> ErrReadingFile] ELSE Parse(content, p)


(***************************************************************************)
(* builder.go: parseAllPosts, filterDrafts, the sort of Build              *)
(***************************************************************************)
\* the fixed content source location of Build
ContentDir == <<"c", "o", "n", "t", "e", "n", "t", "/", "p", "o", "s", "t", "s">>

MdSuffix == <<".", "m", "d">>

\* filepath.Join(dir, name) of a directory and an entry name
JoinPath(dir, name) == dir \o <<"/">> \o name

\* an error of the builder: the step that wraps it, the path it names (if
\* any) and the error it wraps
BuildErr(step, p, cause) == [step |-> step, path |-> p, cause |-> cause]

NoBuildErr == BuildErr("nil", <<>>, NoErr)

\* the loop of parseAllPosts, were it to leave out the test of the suffix
RECURSIVE ParseEntries_AnySuffix(_, _, _)
ParseEntries_AnySuffix(entries, dir, posts) ==
    IF entries = <<>> THEN [posts |-> posts, err |-> NoBuildErr]
    ELSE LET entry == Head(entries)
             p == JoinPath(dir, entry.name)
             r == ParseFile(entry.canRead, entry.raw, p)
         IN  IF entry.isDir
             THEN ParseEntries_AnySuffix(Tail(entries), dir, posts)
             ELSE IF r.err # NoErr
             THEN [posts |-> <<>>, err |-> BuildErr("parsing", p, r.err)]
             ELSE ParseEntries_AnySuffix(Tail(entries), dir, Append(posts, r.post))

\* the loop of parseAllPosts over the directory entries
RECURSIVE ParseEntries(_, _, _)
ParseEntries(entries, dir, posts) ==
    IF entries = <<>> THEN [posts |-> posts, err |-> NoBuildErr]
    ELSE LET entry == Head(entries)
             p == JoinPath(dir, entry.name)
             r == ParseFile(entry.canRead, entry.raw, p)
         IN  IF entry.isDir \/ ~HasSuffix(entry.name, MdSuffix)
             THEN ParseEntries(Tail(entries), dir, posts)
             ELSE IF r.err # NoErr
             THEN [posts |-> <<>>, err |-> BuildErr("parsing", p, r.err)]
             ELSE ParseEntries(Tail(entries), dir, Append(posts, r.post))

\* parseAllPosts, were it to skip a file that fails to parse
RECURSIVE ParseEntries_SkipBad(_, _, _)
ParseEntries_SkipBad(entries, dir, posts) ==
    IF entries = <<>> THEN [posts |-> posts, err |-> NoBuildErr]
    ELSE LET entry == Head(entries)
             p == JoinPath(dir, entry.name)
             r == ParseFile(entry.canRead, entry.raw, p)
         IN  IF entry.isDir \/ ~HasSuffix(entry.name, MdSuffix) \/ r.err # NoErr
             THEN ParseEntries_SkipBad(Tail(entries), dir, posts)
             ELSE ParseEntries_SkipBad(Tail(entries), dir, Append(posts, r.post))

parseAllPosts_SkipBad(d, dir) ==
    IF d.state = "missing" THEN [posts |-> <<>>, err |-> NoBuildErr]
    ELSE IF d.state = "unreadable"
    THEN [posts |-> <<>>, err |-> BuildErr("read dir", dir, "permission denied")]
    ELSE ParseEntries_SkipBad(d.entries, dir, <<>>)

\* parseAllPosts, were a missing directory an error like any other
parseAllPosts_MissingIsError(d, dir) ==
    IF d.state # "ok"
    THEN [posts |-> <<>>, err |-> BuildErr("read dir", dir, "cannot read directory")]
    ELSE ParseEntries(d.entries, dir, <<>>)

\* parseAllPosts(p, dir) on the directory d found at dir
parseAllPosts(d, dir) ==
    IF d.state = "missing" THEN [posts |-> <<>>, err |-> NoBuildErr]
    ELSE IF d.state = "unreadable"
    THEN [posts |-> <<>>, err |-> BuildErr("read dir", dir, "permission denied")]
    ELSE ParseEntries(d.entries, dir, <<>>)

\* filterDrafts, were its test inverted
RECURSIVE filterDrafts_KeepDrafts(_)
filterDrafts_KeepDrafts(posts) ==
    IF posts = <<>> THEN <<>>
    ELSE IF Head(posts).Draft
    THEN <<Head(posts)>> \o filterDrafts_KeepDrafts(Tail(posts))
    ELSE filterDrafts_KeepDrafts(Tail(posts))

RECURSIVE filterDrafts(_)
filterDrafts(posts) ==
    IF posts = <<>> THEN <<>>
    ELSE IF ~Head(posts).Draft
    THEN <<Head(posts)>> \o filterDrafts(Tail(posts))
    ELSE filterDrafts(Tail(posts))

\* time.Time.After
After(t, u) == t > u

\* the less function Build hands to sort.Slice, were it to use Before
Less_Before(a, b) == a.Date < b.Date

\* the less function Build hands to sort.Slice
Less(a, b) == After(a.Date, b.Date)

Swap(s, i, j) == [s EXCEPT ![i] = s[j], ![j] = s[i]]

\* sort.Slice on a slice of fewer than 12 elements is an insertion sort:
\* element i sinks while it is less than the one before it
RECURSIVE Sink(_, _)
Sink(s, j) ==
    IF j > 1 /\ Less(s[j], s[j - 1]) THEN Sink(Swap(s, j, j - 1), j - 1) ELSE s

RECURSIVE InsertionSort(_, _)
InsertionSort(s, i) == IF i > Len(s) THEN s ELSE InsertionSort(Sink(s, i), i + 1)

SortSlice(s) == InsertionSort(s, 2)

(***************************************************************************)
(* renderer.go: RenderIndex, RenderPost, renderToFile                      *)
(* The output tree is a function from paths relative to outputDir to file  *)
(* contents.                                                               *)
(***************************************************************************)
IndexName == <<"i", "n", "d", "e", "x", ".", "h", "t", "m", "l">>

PostTemplate == <<"p", "o", "s", "t", ".", "h", "t", "m", "l">>

PostsSubdir == <<"p", "o", "s", "t", "s">>

HtmlExt == <<".", "h", "t", "m", "l">>

\* the site configuration loadConfig returns
SiteConfig ==
    [Title |-> <<"S">>, Description |-> <<"D">>, BaseURL |-> <<"U">>, Author |-> <<"A">>]

\* filepath.Join(outputDir, "index.html"), relative to outputDir
IndexPath == IndexName

\* filepath.Join(outputDir, "posts", post.Slug+".html"), relative to outputDir
PostPath(slug) == JoinPath(PostsSubdir, slug \o HtmlExt)

\* os.Create has truncated the file and the template has not run to its end
Truncated == [template |-> <<>>, data |-> Nil, complete |-> FALSE]

\* what ExecuteTemplate writes for a template and its PageData
Page(templateName, data) == [template |-> templateName, data |-> data, complete |-> TRUE]

\* the outcomes of renderToFile
RenderOutcomes == {"ok", "mkdir fails", "create fails", "execute fails"}

\* renderToFile on the output files f: MkdirAll, os.Create, ExecuteTemplate
renderToFile(f, templateName, data, outputPath, outcome) ==
    IF outcome = "mkdir fails"
    THEN [files |-> f, err |-> BuildErr("creating output directory", outputPath, outcome)]
    ELSE IF outcome = "create fails"
    THEN [files |-> f, err |-> BuildErr("creating output file", outputPath, outcome)]
    ELSE IF outcome = "execute fails"
    THEN [files |-> (outputPath :> Truncated) @@ f,
          err |-> BuildErr("executing template", outputPath, outcome)]
    ELSE [files |-> (outputPath :> Page(templateName, data)) @@ f, err |-> NoBuildErr]

\* RenderIndex, were it to write no page for an empty list of posts
RenderIndex_SkipEmpty(f, posts, config, outputPath, outcome) ==
    IF posts = <<>> THEN [files |-> f, err |-> NoBuildErr]
    ELSE renderToFile(f, IndexName,
                      [Site |-> config, Post |-> Nil, Posts |-> posts,
                       Title |-> config.Title],
                      outputPath, outcome)

RenderIndex(f, posts, config, outputPath, outcome) ==
    renderToFile(f, IndexName,
                 [Site |-> config, Post |-> Nil, Posts |-> posts, Title |-> config.Title],
                 outputPath, outcome)

RenderPost(f, post, config, outputPath, outcome) ==
    renderToFile(f, PostTemplate,
                 [Site |-> config, Post |-> post, Posts |-> <<>>, Title |-> post.Title],
                 outputPath, outcome)

(***************************************************************************)
(* package ssg: newRenderer, renderIndex, renderPost, renderToFile         *)
(* A template set is its layout and the file whose {{define}} block is     *)
(* bound to the insertion point of the layout.                             *)
(***************************************************************************)
BaseName == <<"b", "a", "s", "e", ".", "h", "t", "m", "l">>

PostsTemplate == <<"p", "o", "s", "t", "s", ".", "h", "t", "m", "l">>

\* template.ParseGlob("templates/*.html") parses base.html, post.html and
\* posts.html in that order: the block of the file parsed last is bound
ParseGlob == [layout |-> BaseName, block |-> PostsTemplate]

\* newRenderer(templateDir)
newRenderer == ParseGlob

\* r.templates.Lookup("base.html").Clone(): a copy of the set
Clone(t) == t

\* ParseFiles, were the block bound when the set was loaded to stay bound
ParseFiles_KeepBound(t, contentTemplate) == t

\* tmpl.ParseFiles(filepath.Join("templates", contentTemplate)) binds the
\* block the content template defines
ParseFiles(t, contentTemplate) == [t EXCEPT !.block = contentTemplate]

\* what tmpl.Execute writes: the layout with the bound block, over data
Execute(t, data) ==
    [layout |-> t.layout, template |-> t.block, data |-> data, complete |-> TRUE]

\* the outcomes of renderToFile of package ssg
ComposeOutcomes ==
    {"ok", "mkdir fails", "create fails", "clone fails", "parse fails", "execute fails"}

ComposeErr(step) == [step |-> step]

\* renderToFile of package ssg, were it to remove the file it created when
\* a later step fails
ssg_renderToFile_RemoveOnFailure(t, f, contentTemplate, data, outputPath, outcome) ==
    IF outcome = "mkdir fails"
    THEN [templates |-> t, files |-> f, err |-> ComposeErr("creating output directory")]
    ELSE IF outcome = "create fails"
    THEN [templates |-> t, files |-> f, err |-> ComposeErr("creating output file")]
    ELSE IF outcome = "ok"
    THEN [templates |-> t,
          files |-> (outputPath :> Execute(ParseFiles(Clone(t), contentTemplate), data)) @@ f,
          err |-> ComposeErr("nil")]
    ELSE [templates |-> t,
          files |-> [q \in DOMAIN f \ {outputPath} |-> f[q]],
          err |-> ComposeErr("executing template")]

\* renderToFile of package ssg on the shared set t and the output files f:
\* MkdirAll, os.Create, Clone, ParseFiles, Execute
ssg_renderToFile(t, f, contentTemplate, data, outputPath, outcome) ==
    IF outcome = "mkdir fails"
    THEN [templates |-> t, files |-> f, err |-> ComposeErr("creating output directory")]
    ELSE IF outcome = "create fails"
    THEN [templates |-> t, files |-> f, err |-> ComposeErr("creating output file")]
    ELSE LET created == (outputPath :> Truncated) @@ f
             tmpl == ParseFiles(Clone(t), contentTemplate)
         IN  IF outcome = "clone fails"
             THEN [templates |-> t, files |-> created,
                   err |-> ComposeErr("cloning base template")]
             ELSE IF outcome = "parse fails"
             THEN [templates |-> t, files |-> created,
                   err |-> ComposeErr("parsing content template")]
             ELSE IF outcome = "execute fails"
             THEN [templates |-> t, files |-> created,
                   err |-> ComposeErr("executing template")]
             ELSE [templates |-> t,
                   files |-> (outputPath :> Execute(tmpl, data)) @@ f,
                   err |-> ComposeErr("nil")]

renderIndex(t, f, posts, config, outputPath, outcome) ==
    ssg_renderToFile(t, f, PostsTemplate,
                     [Site |-> config, Post |-> Nil, Posts |-> posts, Title |-> config.Title],
                     outputPath, outcome)

renderPost(t, f, post, config, outputPath, outcome) ==
    ssg_renderToFile(t, f, PostTemplate,
                     [Site |-> config, Post |-> post, Posts |-> <<>>, Title |-> post.Title],
                     outputPath, outcome)

\* the renderer holds the set newRenderer loaded and has composed nothing
RendererIdle ==
    /\ templates = newRenderer
    /\ calls = <<>>

(***************************************************************************)
(* builder.go: copyStatic                                                  *)
(***************************************************************************)
\* a file copied from the static tree
StaticFile(rel) == [template |-> <<>>, data |-> [staticOf |-> rel], complete |-> TRUE]

\* the walk copies the files in lexical order and stops at the first failure:
\* failAt = 0 when every copy succeeds, k when the k-th one fails
RECURSIVE CopyFiles(_, _, _, _)
CopyFiles(f, rels, k, failAt) ==
    IF rels = <<>> THEN [files |-> f, err |-> NoBuildErr]
    ELSE IF k = failAt
    THEN [files |-> f, err |-> BuildErr("copying static files", Head(rels), "write fails")]
    ELSE CopyFiles((Head(rels) :> StaticFile(Head(rels))) @@ f, Tail(rels), k + 1, failAt)

\* copyStatic, were a missing static directory an error
copyStatic_MissingIsError(st, f, failAt) ==
    IF ~st.exists
    THEN [files |-> f, err |-> BuildErr("copying static files", <<>>, "no static directory")]
    ELSE CopyFiles(f, st.files, 1, failAt)

\* copyStatic(srcDir, dstDir) with the static tree st
copyStatic(st, f, failAt) ==
    IF ~st.exists THEN [files |-> f, err |-> NoBuildErr]
    ELSE CopyFiles(f, st.files, 1, failAt)

(***************************************************************************)
(* Inputs of the parser specification                                      *)
(***************************************************************************)
\* arbitrary byte strings over a hyphen, a newline and a letter
RawAlphabet == {"-", "\n", "a"}

RawBytes == UNION {[1..n -> RawAlphabet] : n \in 0..MaxRaw}

Titles == {<<>>, <<"a">>, <<"a", " ", "b">>, <<"a", "-", "b">>, <<"a", "-", "-", "-", "b">>}

Descriptions == {<<>>, <<"d">>}

TagLists == {<<>>, << <<"t">> >>, << <<"t">>, <<"u">> >>}

Bodies == {<<"x">>, <<"x", "\n", "-", "-", "-", "\n", "y">>}

Fields == {"title", "date", "description", "tags", "draft"}

\* the metadata of a document: title, date, description, tags, draft
Docs ==
    [Title : Titles, Date : 1..MaxYear, Description : Descriptions,
     Tags : TagLists, Draft : BOOLEAN]

\* a document file as NewPost and the README write it, without the fields
\* of omit: the header between two marker lines, a blank line, the body
Serialize(d, omit, body) ==
    Marker \o NL
    \o (IF "title" \in omit THEN <<>> ELSE KeyTitle \o <<":", " ">> \o d.Title \o NL)
    \o (IF "date" \in omit THEN <<>>
        ELSE KeyDate \o <<":", " ">> \o FormatRFC3339(d.Date) \o NL)
    \o (IF "description" \in omit THEN <<>>
        ELSE KeyDescription \o <<":", " ", "\"">> \o d.Description \o <<"\"">> \o NL)
    \o (IF "tags" \in omit THEN <<>>
        ELSE KeyTags \o <<":", " ", "[">> \o Join(d.Tags, <<",", " ">>) \o <<"]">> \o NL)
    \o (IF "draft" \in omit THEN <<>>
        ELSE KeyDraft \o <<":", " ">> \o (IF d.Draft THEN TextTrue ELSE TextFalse) \o NL)
    \o Marker \o NL \o NL \o body \o NL

\* file names: three groups of digits or letters, each followed by a hyphen
\* or a letter, then the rest of the name and an extension
Group4 == {<<"2", "0", "2", "4">>, <<"s", "o", "m", "e">>}

Group2 == {<<"0", "1">>, <<"o", "f">>}

Seps == {<<"-">>, <<"x">>}

Rests == {<<>>, <<"p">>, <<"m", "y", "-", "p", "o", "s", "t">>}

Exts == {<<>>, <<".", "m", "d">>}

Dirs == {<<>>, <<"c", "o", "n", "t", "e", "n", "t", "/", "p", "o", "s", "t", "s", "/">>}

Stems ==
    {g1 \o s1 \o g2 \o s2 \o g3 \o s3 \o r :
        g1 \in Group4, s1 \in Seps, g2 \in Group2, s2 \in Seps, g3 \in Group2,
        s3 \in Seps, r \in Rests}
    \cup {<<"s", "i", "m", "p", "l", "e">>, <<"2", "0", "2", "4", "-", "0", "1">>}

Paths == {d \o st \o e : d \in Dirs, st \in Stems, e \in Exts}

DefaultPath == <<"p", ".", "m", "d">>

DefaultDoc ==
    [Title |-> <<"a">>, Date |-> 2, Description |-> <<>>, Tags |-> <<>>, Draft |-> FALSE]

\* no Build is running and the file system is empty
BuildIdle ==
    /\ contentDir = [state |-> "missing", entries |-> <<>>]
    /\ static = [exists |-> FALSE, files |-> <<>>]
    /\ out = [exists |-> FALSE, files |-> <<>>]
    /\ pc = "idle"
    /\ allPosts = <<>>
    /\ publishedPosts = <<>>
    /\ nextPost = 1
    /\ buildErr = NoBuildErr
    /\ log = <<>>
    /\ outBefore = out
    /\ cli = NoProcess
    /\ RendererIdle

\* no call of the parser is under way
ParserIdle ==
    /\ input = [kind |-> "none"]
    /\ raw = <<>>
    /\ path = <<>>
    /\ readable = TRUE
    /\ ppc = "idle"
    /\ ret = [post |-> Nil, err |-> NoErr]

(***************************************************************************)
(* The parser specification: one call of Parse or of ParseFile on an       *)
(* input drawn from RawBytes, the serialized documents and Paths           *)
(***************************************************************************)
InitParse ==
    /\ BuildIdle
    /\ ppc = "call"
    /\ ret = [post |-> Nil, err |-> NoErr]
    /\ readable \in BOOLEAN
    /\ \/ /\ input = [kind |-> "bytes"]
          /\ raw \in RawBytes
          /\ path = DefaultPath
       \/ /\ input \in [kind : {"doc"}, doc : Docs, omit : SUBSET Fields, body : Bodies]
          /\ raw = Serialize(input.doc, input.omit, input.body)
          /\ path = DefaultPath
       \/ /\ input = [kind |-> "path"]
          /\ raw = Serialize(DefaultDoc, {}, <<"x">>)
          /\ path \in Paths

ParseCall ==
    /\ ppc = "call"
    /\ ret' = Parse(raw, path)
    /\ ppc' = "Parse"
    /\ UNCHANGED <<input, raw, path, readable, fsvars, bvars, cvars>>

ParseFileCall ==
    /\ ppc = "call"
    /\ ret' = ParseFile(readable, raw, path)
    /\ ppc' = "ParseFile"
    /\ UNCHANGED <<input, raw, path, readable, fsvars, bvars, cvars>>

NextParse == ParseCall \/ ParseFileCall

SpecParse == InitParse /\ [][NextParse]_vars

\* Parse has returned: directly, or through ParseFile after a successful read
Parsed == ppc = "Parse" \/ (ppc = "ParseFile" /\ readable)


(***************************************************************************)
(* builder.go: NewPost(title), with time.Now() the year now                *)
(***************************************************************************)
UpperCase ==
    << "A", "B", "C", "D", "E", "F", "G", "H", "I", "J", "K", "L", "M",
       "N", "O", "P", "Q", "R", "S", "T", "U", "V", "W", "X", "Y", "Z" >>

LowerCase ==
    << "a", "b", "c", "d", "e", "f", "g", "h", "i", "j", "k", "l", "m",
       "n", "o", "p", "q", "r", "s", "t", "u", "v", "w", "x", "y", "z" >>

\* strings.ToLower
ToLowerChar(c) ==
    IF \E i \in 1..26 : UpperCase[i] = c
    THEN LowerCase[CHOOSE i \in 1..26 : UpperCase[i] = c]
    ELSE c

ToLower(s) == [i \in 1..Len(s) |-> ToLowerChar(s[i])]

\* ReplaceAll, were it to replace the first occurrence only
ReplaceAll_First(s, old, new) ==
    [i \in 1..Len(s) |->
        IF s[i] = old /\ (\A j \in 1..(i - 1) : s[j] # old) THEN new ELSE s[i]]

\* strings.ReplaceAll(s, old, new) for a one-character old
ReplaceAll(s, old, new) == [i \in 1..Len(s) |-> IF s[i] = old THEN new ELSE s[i]]

\* (r >= 'a' && r <= 'z') || (r >= '0' && r <= '9') || r == '-'
IsSlugChar(c) == (\E i \in 1..26 : LowerCase[i] = c) \/ IsDigit(c) \/ c = "-"

\* the loop that writes the kept characters to cleanSlug
cleanSlug(s) == SelectSeq(s, IsSlugChar)

\* time.Now().Format("2006-01-02")
FormatDate(y) ==
    << Digits[((y \div 1000) % 10) + 1], Digits[((y \div 100) % 10) + 1],
       Digits[((y \div 10) % 10) + 1], Digits[(y % 10) + 1],
       "-", "0", "1", "-", "0", "1" >>

PostBody ==
    << "W", "r", "i", "t", "e", " ", "y", "o", "u", "r", " ", "p", "o", "s", "t",
       " ", "h", "e", "r", "e", ".", ".", "." >>

ErrWritingPost == "writing post file"

\* the order of the bytes of a file name of the model: '-' < '.' < digits <
\* lower-case letters
NameBytes == <<"-", ".">> \o Digits \o LowerCase

ByteRank(c) == CHOOSE i \in 1..Len(NameBytes) : NameBytes[i] = c

\* a < b as strings
RECURSIVE NameLess(_, _)
NameLess(a, b) ==
    IF b = <<>> THEN FALSE
    ELSE IF a = <<>> THEN TRUE
    ELSE IF Head(a) # Head(b) THEN ByteRank(Head(a)) < ByteRank(Head(b))
    ELSE NameLess(Tail(a), Tail(b))

\* os.WriteFile(filepath, content, 0600) on the entries of a directory,
\* which os.ReadDir lists sorted by name: O_WRONLY|O_CREATE|O_TRUNC replaces
\* the content of a file of this name, and creates the file otherwise
WriteFile(entries, name, content) ==
    IF \E i \in 1..Len(entries) : entries[i].name = name
    THEN [i \in 1..Len(entries) |->
            IF entries[i].name = name
            THEN [entries[i] EXCEPT !.raw = content]
            ELSE entries[i]]
    ELSE SelectSeq(entries, LAMBDA e : NameLess(e.name, name))
         \o << [name |-> name, isDir |-> FALSE, canRead |-> TRUE, raw |-> content] >>
         \o SelectSeq(entries, LAMBDA e : ~NameLess(e.name, name))

\* NewPost, were it to write the document as published
NewPost_Published(title, now, canWrite) ==
    LET slug == cleanSlug(ReplaceAll(ToLower(title), " ", "-"))
        filename == FormatDate(now) \o <<"-">> \o slug \o MdSuffix
    IN  [slug |-> slug,
         filename |-> filename,
         path |-> JoinPath(ContentDir, filename),
         content |-> Serialize([Title |-> title, Date |-> now, Description |-> <<>>,
                                Tags |-> <<>>, Draft |-> FALSE], {}, PostBody),
         err |-> IF canWrite THEN NoErr ELSE ErrWritingPost]

\* NewPost(title): the slug, the file name and path, the content written,
\* and the error of os.WriteFile
NewPost(title, now, canWrite) ==
    LET slug == cleanSlug(ReplaceAll(ToLower(title), " ", "-"))
        filename == FormatDate(now) \o <<"-">> \o slug \o MdSuffix
    IN  [slug |-> slug,
         filename |-> filename,
         path |-> JoinPath(ContentDir, filename),
         content |-> Serialize([Title |-> title, Date |-> now, Description |-> <<>>,
                                Tags |-> <<>>, Draft |-> TRUE], {}, PostBody),
         err |-> IF canWrite THEN NoErr ELSE ErrWritingPost]

(***************************************************************************)
(* The post-creation specification: one call of NewPost on a title drawn   *)
(* from TitleStrings                                                       *)
(***************************************************************************)
TitleAlphabet == {"A", "b", "1", " ", "-", "!", "_"}

\* titles with the characters that mean something in a YAML header
SpecialTitles ==
    { <<"a", ":", " ", "b">>, <<"#", "a">>, <<"\"", "a", "\"">>, <<"a", ":">>,
      <<"[", "a", "]">> }

TitleStrings == UNION {[1..n -> TitleAlphabet] : n \in 0..MaxTitle} \cup SpecialTitles

\* a published document written on the day of year 2 under the title "a",
\* and edited since
EarlierPost ==
    [name |-> FormatDate(2) \o <<"-", "a">> \o MdSuffix, isDir |-> FALSE, canRead |-> TRUE,
     raw |-> Serialize(DefaultDoc, {}, <<"x">>)]

\* content/posts before the call: missing, empty, or holding EarlierPost
NewPostDirs ==
    { [state |-> "missing", entries |-> <<>>],
      [state |-> "ok", entries |-> <<>>],
      [state |-> "ok", entries |-> <<EarlierPost>>] }

InitNewPost ==
    /\ input \in [kind : {"title"}, title : TitleStrings, now : {2, MaxYear},
                  dir : NewPostDirs]
    /\ raw = <<>>
    /\ path = <<>>
    /\ readable = TRUE
    /\ ppc = "call"
    /\ ret = [post |-> Nil, err |-> NoErr]
    /\ contentDir = input.dir
    /\ static = [exists |-> FALSE, files |-> <<>>]
    /\ out = [exists |-> FALSE, files |-> <<>>]
    /\ outBefore = out
    /\ cli = NoProcess
    /\ pc = "idle"
    /\ allPosts = <<>>
    /\ publishedPosts = <<>>
    /\ nextPost = 1
    /\ buildErr = NoBuildErr
    /\ log = <<>>
    /\ RendererIdle

\* os.WriteFile writes the file in content/posts when the directory is
\* there and the write succeeds
NewPostCall ==
    /\ ppc = "call"
    /\ \E canWrite \in {b \in BOOLEAN : b => contentDir.state = "ok"} :
        LET r == NewPost(input.title, input.now, canWrite)
        IN  /\ ret' = r
            /\ raw' = r.content
            /\ path' = r.path
            /\ contentDir' =
                    IF canWrite
                    THEN [contentDir EXCEPT
                            !.entries = WriteFile(contentDir.entries, r.filename, r.content)]
                    ELSE contentDir
    /\ ppc' = "NewPost"
    /\ UNCHANGED <<input, readable, static, out, bvars, cvars>>

NextNewPost == NewPostCall

SpecNewPost == InitNewPost /\ [][NextNewPost]_vars

(***************************************************************************)
(* The renderer specification: up to MaxCalls calls of renderIndex and     *)
(* renderPost of package ssg on one renderer, in any order                 *)
(***************************************************************************)
PostA ==
    MakePost([ZeroFrontmatter EXCEPT !.Title = <<"a">>, !.Date = 2], <<"x">>,
             Convert(<<"x">>).html, <<"x", ".", "m", "d">>)

PostB ==
    MakePost([ZeroFrontmatter EXCEPT !.Title = <<"b">>, !.Date = 3], <<"y">>,
             Convert(<<"y">>).html, <<"y", ".", "m", "d">>)

ComposeLists == {<<>>, <<PostB, PostA>>}

ComposePosts == {PostA, PostB}

ComposePaths == {IndexPath, PostPath(<<"x">>)}

\* outputDir before the calls: missing, or holding a complete page
ComposeDirs ==
    {[exists |-> FALSE, files |-> <<>>],
     [exists |-> TRUE,
      files |-> (IndexPath :> [template |-> <<"o", "l", "d">>, data |-> Nil,
                               complete |-> TRUE])]}

InitCompose ==
    /\ ParserIdle
    /\ contentDir = [state |-> "missing", entries |-> <<>>]
    /\ static = [exists |-> FALSE, files |-> <<>>]
    /\ out \in ComposeDirs
    /\ outBefore = out
    /\ cli = NoProcess
    /\ pc = "idle"
    /\ allPosts = <<>>
    /\ publishedPosts = <<>>
    /\ nextPost = 1
    /\ buildErr = NoBuildErr
    /\ log = <<>>
    /\ templates = newRenderer
    /\ calls = <<>>

\* the call is recorded with the content template of its function, its
\* argument, and the error it returned
Called(fn, arg, q, outcome, r) ==
    /\ templates' = r.templates
    /\ out' = [exists |-> out.exists \/ outcome # "mkdir fails", files |-> r.files]
    /\ calls' = Append(calls, [fn |-> fn, arg |-> arg, path |-> q, outcome |-> outcome,
                               err |-> r.err.step])

RenderIndexCall ==
    /\ Len(calls) < MaxCalls
    /\ \E posts \in ComposeLists, q \in ComposePaths, outcome \in ComposeOutcomes :
            Called("renderIndex", posts, q, outcome,
                   renderIndex(templates, out.files, posts, SiteConfig, q, outcome))
    /\ UNCHANGED <<pvars, contentDir, static, bvars, outBefore, cli>>

RenderPostCall ==
    /\ Len(calls) < MaxCalls
    /\ \E post \in ComposePosts, q \in ComposePaths, outcome \in ComposeOutcomes :
            Called("renderPost", post, q, outcome,
                   renderPost(templates, out.files, post, SiteConfig, q, outcome))
    /\ UNCHANGED <<pvars, contentDir, static, bvars, outBefore, cli>>

NextCompose == RenderIndexCall \/ RenderPostCall

SpecCompose == InitCompose /\ [][NextCompose]_vars

(***************************************************************************)
(* The file systems Build starts from                                      *)
(***************************************************************************)
\* the candidate entries of content/posts, in the order os.ReadDir lists them
Name1 == <<"2", "0", "2", "4", "-", "0", "1", "-", "1", "5", "-", "x", ".", "m", "d">>

NameTxt == <<"n", "o", "t", "e", "s", ".", "t", "x", "t">>

NameSub == <<"s", "u", "b", ".", "m", "d">>

Name2 == <<"x", ".", "m", "d">>

Name3 == <<"y", ".", "m", "d">>

\* what a candidate markdown file may be: absent, unreadable, without a
\* header, a published document of any date, or a draft
DocChoices ==
    [kind : {"doc"}, date : 1..MaxYear, draft : {FALSE}]
    \cup [kind : {"doc"}, date : {MaxYear}, draft : {TRUE}]

Choice(kind) == [kind |-> kind, date |-> ZeroTime, draft |-> FALSE]

\* the first file is there or not; the second may also be unreadable or
\* malformed, the third malformed
Choices1 == DocChoices \cup {Choice("absent")}

Choices2 == DocChoices \cup {Choice("absent"), Choice("unreadable"), Choice("malformed")}

Choices3 == DocChoices \cup {Choice("absent"), Choice("malformed")}

NoHeader == <<"j", "u", "s", "t", " ", "t", "e", "x", "t">>

FileRaw(c) ==
    IF c.kind = "doc"
    THEN Serialize([Title |-> <<"a">>, Date |-> c.date, Description |-> <<>>,
                    Tags |-> <<>>, Draft |-> c.draft], {"description", "tags"}, <<"x">>)
    ELSE NoHeader

\* the directory entry of a candidate file, or none when it is absent
FileEntry(name, c) ==
    IF c.kind = "absent" THEN <<>>
    ELSE << [name |-> name, isDir |-> FALSE, canRead |-> c.kind # "unreadable",
             raw |-> FileRaw(c)] >>

DirEntry(name, present) ==
    IF present
    THEN << [name |-> name, isDir |-> TRUE, canRead |-> TRUE, raw |-> <<>>] >>
    ELSE <<>>

OtherEntry(name, present) ==
    IF present
    THEN << [name |-> name, isDir |-> FALSE, canRead |-> TRUE, raw |-> NoHeader] >>
    ELSE <<>>

ContentDirs ==
    {[state |-> "missing", entries |-> <<>>], [state |-> "unreadable", entries |-> <<>>]}
    \cup {[state |-> "ok",
           entries |-> FileEntry(Name1, c1) \o OtherEntry(NameTxt, t) \o DirEntry(NameSub, d)
                       \o FileEntry(Name2, c2) \o FileEntry(Name3, c3)] :
            c1 \in Choices1, t \in BOOLEAN, d \in BOOLEAN,
            c2 \in Choices2, c3 \in Choices3}

StyleName == <<"s", "t", "y", "l", "e", ".", "c", "s", "s">>

StaticTrees ==
    {[exists |-> FALSE, files |-> <<>>]}
    \cup {[exists |-> TRUE, files |-> fs] :
            fs \in {<<StyleName>>, <<IndexName, StyleName>>}}

\* a page left in outputDir by an earlier build
OldPage == [template |-> <<"o", "l", "d">>, data |-> Nil, complete |-> TRUE]

OldSlug == <<"o", "l", "d">>

OutputDirs ==
    {[exists |-> FALSE, files |-> <<>>],
     [exists |-> TRUE, files |-> (IndexPath :> OldPage) @@ (PostPath(OldSlug) :> OldPage)]}

(***************************************************************************)
(* Build(configPath, outputDir), step by step                              *)
(***************************************************************************)
Init ==
    /\ ParserIdle
    /\ contentDir \in ContentDirs
    /\ static \in StaticTrees
    /\ out \in OutputDirs
    /\ pc = "loadConfig"
    /\ allPosts = <<>>
    /\ publishedPosts = <<>>
    /\ nextPost = 1
    /\ buildErr = NoBuildErr
    /\ log = <<>>
    /\ outBefore = out
    /\ cli = NoProcess
    /\ RendererIdle

Logged(step, p) == Append(log, [step |-> step, path |-> p])

\* a failing step, were Build to stay at it and try it again
Fail_Retry(e) == pc' = pc /\ buildErr' = e

Fail(e) == pc' = "failed" /\ buildErr' = e

\* config, err := loadConfig(configPath)
LoadConfig ==
    /\ pc = "loadConfig"
    /\ log' = Logged("loadConfig", <<>>)
    /\ \E ok \in BOOLEAN :
        IF ok THEN pc' = "parseAllPosts" /\ UNCHANGED buildErr
        ELSE Fail(BuildErr("loading config", <<>>, "cannot load"))
    /\ UNCHANGED <<cvars, pvars, fsvars, allPosts, publishedPosts, nextPost>>

\* the parse step, were it to empty outputDir before parsing
ParseAllPosts_CleanFirst ==
    /\ pc = "parseAllPosts"
    /\ log' = Logged("parseAllPosts", ContentDir)
    /\ LET r == parseAllPosts(contentDir, ContentDir)
       IN  /\ allPosts' = r.posts
           /\ IF r.err = NoBuildErr THEN pc' = "filterDrafts" /\ UNCHANGED buildErr
              ELSE Fail(BuildErr("parsing posts", r.err.path, r.err.cause))
    /\ out' = [exists |-> TRUE, files |-> <<>>]
    /\ UNCHANGED <<cvars, pvars, contentDir, static, publishedPosts, nextPost>>

\* posts, err := parseAllPosts(p, "content/posts")
ParseAllPosts ==
    /\ pc = "parseAllPosts"
    /\ log' = Logged("parseAllPosts", ContentDir)
    /\ LET r == parseAllPosts(contentDir, ContentDir)
       IN  /\ allPosts' = r.posts
           /\ IF r.err = NoBuildErr THEN pc' = "filterDrafts" /\ UNCHANGED buildErr
              ELSE Fail(BuildErr("parsing posts", r.err.path, r.err.cause))
    /\ UNCHANGED <<cvars, pvars, fsvars, publishedPosts, nextPost>>

\* publishedPosts := filterDrafts(posts)
FilterDrafts ==
    /\ pc = "filterDrafts"
    /\ log' = Logged("filterDrafts", <<>>)
    /\ publishedPosts' = filterDrafts(allPosts)
    /\ pc' = "sort"
    /\ UNCHANGED <<cvars, pvars, fsvars, allPosts, nextPost, buildErr>>

\* sort.Slice(publishedPosts, ...)
SortPosts ==
    /\ pc = "sort"
    /\ log' = Logged("sort", <<>>)
    /\ publishedPosts' = SortSlice(publishedPosts)
    /\ pc' = "newRenderer"
    /\ UNCHANGED <<cvars, pvars, fsvars, allPosts, nextPost, buildErr>>

\* the template step, were Build to empty outputDir before loading
NewRenderer_CleanFirst ==
    /\ pc = "newRenderer"
    /\ log' = Logged("newRenderer", <<>>)
    /\ \E ok \in BOOLEAN :
        IF ok THEN pc' = "clean" /\ UNCHANGED buildErr
        ELSE Fail(BuildErr("creating renderer", <<>>, "loading templates"))
    /\ out' = [exists |-> TRUE, files |-> <<>>]
    /\ UNCHANGED <<cvars, pvars, contentDir, static, allPosts, publishedPosts, nextPost>>

\* r, err := renderer.New("templates")
NewRenderer ==
    /\ pc = "newRenderer"
    /\ log' = Logged("newRenderer", <<>>)
    /\ \E ok \in BOOLEAN :
        IF ok THEN pc' = "clean" /\ UNCHANGED buildErr
        ELSE Fail(BuildErr("creating renderer", <<>>, "loading templates"))
    /\ UNCHANGED <<cvars, pvars, fsvars, allPosts, publishedPosts, nextPost>>

\* the files left when os.RemoveAll fails part of the way
Restrict(f, keep) == [q \in keep |-> f[q]]

\* the clean step, were it to leave the files of outputDir in place
CleanOutput_KeepFiles ==
    /\ pc = "clean"
    /\ log' = Logged("clean", <<>>)
    /\ out' = [exists |-> TRUE, files |-> out.files]
    /\ pc' = "renderIndex"
    /\ UNCHANGED <<cvars, pvars, contentDir, static, allPosts, publishedPosts, nextPost,
                   buildErr>>

\* os.RemoveAll(outputDir), then os.MkdirAll(outputDir, 0750)
CleanOutput ==
    /\ pc = "clean"
    /\ log' = Logged("clean", <<>>)
    /\ \/ /\ out' = [exists |-> TRUE, files |-> <<>>]
          /\ pc' = "renderIndex"
          /\ UNCHANGED buildErr
       \/ /\ out.exists
          /\ \E keep \in SUBSET (DOMAIN out.files) :
                out' = [exists |-> TRUE, files |-> Restrict(out.files, keep)]
          /\ Fail(BuildErr("cleaning output directory", <<>>, "remove fails"))
       \/ /\ out' = [exists |-> FALSE, files |-> <<>>]
          /\ Fail(BuildErr("creating output directory", <<>>, "mkdir fails"))
    /\ UNCHANGED <<cvars, pvars, contentDir, static, allPosts, publishedPosts, nextPost>>

\* r.RenderIndex(publishedPosts, rendererConfig, indexPath)
RenderIndexPage ==
    /\ pc = "renderIndex"
    /\ log' = Logged("RenderIndex", IndexPath)
    /\ \E outcome \in RenderOutcomes :
        LET r == RenderIndex(out.files, publishedPosts, SiteConfig, IndexPath, outcome)
        IN  /\ out' = [out EXCEPT !.files = r.files]
            /\ IF r.err = NoBuildErr
               THEN /\ pc' = IF publishedPosts = <<>> THEN "copyStatic" ELSE "renderPosts"
                    /\ UNCHANGED buildErr
               ELSE Fail(BuildErr("rendering index", r.err.path, r.err.step))
    /\ UNCHANGED <<cvars, pvars, contentDir, static, allPosts, publishedPosts, nextPost>>

\* one turn of the loop over publishedPosts: r.RenderPost(post, ..., postPath)
RenderPostPage ==
    /\ pc = "renderPosts"
    /\ LET post == publishedPosts[nextPost]
           postPath == PostPath(post.Slug)
       IN  /\ log' = Logged("RenderPost", postPath)
           /\ \E outcome \in RenderOutcomes :
                LET r == RenderPost(out.files, post, SiteConfig, postPath, outcome)
                IN  /\ out' = [out EXCEPT !.files = r.files]
                    /\ IF r.err = NoBuildErr
                       THEN /\ nextPost' = nextPost + 1
                            /\ pc' = IF nextPost = Len(publishedPosts)
                                     THEN "copyStatic" ELSE "renderPosts"
                            /\ UNCHANGED buildErr
                       ELSE /\ Fail(BuildErr("rendering post", post.Slug, r.err.step))
                            /\ UNCHANGED nextPost
    /\ UNCHANGED <<cvars, pvars, contentDir, static, allPosts, publishedPosts>>

\* copyStatic("static", outputDir)
CopyStatic ==
    /\ pc = "copyStatic"
    /\ log' = Logged("copyStatic", <<>>)
    /\ \E failAt \in 0..Len(static.files) :
        LET r == copyStatic(static, out.files, failAt)
        IN  /\ out' = [out EXCEPT !.files = r.files]
            /\ IF r.err = NoBuildErr THEN pc' = "done" /\ UNCHANGED buildErr
               ELSE Fail(BuildErr("copying static files", r.err.path, r.err.cause))
    /\ UNCHANGED <<cvars, pvars, contentDir, static, allPosts, publishedPosts, nextPost>>

Next ==
    \/ LoadConfig
    \/ ParseAllPosts
    \/ FilterDrafts
    \/ SortPosts
    \/ NewRenderer
    \/ CleanOutput
    \/ RenderIndexPage
    \/ RenderPostPage
    \/ CopyStatic

Spec == Init /\ [][Next]_vars

(***************************************************************************)
(* The create-then-build specification: one call of NewPost, then one      *)
(* Build with the created file as NewPost wrote it                         *)
(***************************************************************************)
HeaderInTitle == <<"a", "-", "-", "-", "b">>

NewBuildTitles == {t \in TitleStrings : Len(t) <= 2} \cup SpecialTitles \cup {HeaderInTitle}

\* content/posts before the call: empty, or holding EarlierPost
NewBuildDirs == {d \in NewPostDirs : d.state = "ok"}

InitNewBuild ==
    /\ input \in [kind : {"title"}, title : NewBuildTitles, now : {2, MaxYear},
                  dir : NewBuildDirs]
    /\ raw = <<>>
    /\ path = <<>>
    /\ readable = TRUE
    /\ ppc = "call"
    /\ ret = [post |-> Nil, err |-> NoErr]
    /\ contentDir = input.dir
    /\ static = [exists |-> FALSE, files |-> <<>>]
    /\ out = [exists |-> FALSE, files |-> <<>>]
    /\ outBefore = out
    /\ cli = NoProcess
    /\ pc = "idle"
    /\ allPosts = <<>>
    /\ publishedPosts = <<>>
    /\ nextPost = 1
    /\ buildErr = NoBuildErr
    /\ log = <<>>
    /\ RendererIdle

\* Build is called once NewPost has returned
BuildCall ==
    /\ ppc = "NewPost"
    /\ pc = "idle"
    /\ pc' = "loadConfig"
    /\ UNCHANGED <<cvars, pvars, fsvars, allPosts, publishedPosts, nextPost, buildErr, log>>

NextNewBuild == NewPostCall \/ BuildCall \/ Next

SpecNewBuild == InitNewBuild /\ [][NextNewBuild]_vars

(***************************************************************************)
(* main.go: one run of the command ssg                                     *)
(***************************************************************************)
CliTitles == {<<>>, <<"A">>, <<"A", " ", "b">>}

\* os.Args: the command ("none" when there is none), whether the flags
\* after it parse, and the value of --title
Argv ==
    [kind : {"argv"}, cmd : {"none", "bogus"}, flagsOk : {TRUE}, title : {<<>>}, now : {2}]
    \cup [kind : {"argv"}, cmd : {"build", "serve"}, flagsOk : BOOLEAN, title : {<<>>},
          now : {2}]
    \cup [kind : {"argv"}, cmd : {"new"}, flagsOk : BOOLEAN, title : CliTitles, now : {2}]

InitCLI ==
    /\ input \in Argv
    /\ raw = <<>>
    /\ path = <<>>
    /\ readable = TRUE
    /\ ppc = "idle"
    /\ ret = [post |-> Nil, err |-> NoErr]
    /\ contentDir \in NewPostDirs
    /\ static \in StaticTrees
    /\ out \in OutputDirs
    /\ outBefore = out
    /\ pc = "idle"
    /\ allPosts = <<>>
    /\ publishedPosts = <<>>
    /\ nextPost = 1
    /\ buildErr = NoBuildErr
    /\ log = <<>>
    /\ RendererIdle
    /\ cli = [NoProcess EXCEPT !.stage = "start"]

Line(msg, err) == [msg |-> msg, err |-> err]

\* os.Exit(status), or the return of main with status 0
Exit(c, status) == [c EXCEPT !.stage = "exited", !.status = status]

\* len(os.Args) < 2, and the default case of the switch: printUsage writes
\* to stdout, then os.Exit(1)
MainUsage ==
    /\ cli.stage = "start"
    /\ input.cmd \in {"none", "bogus"}
    /\ cli' = Exit([cli EXCEPT !.stdout = Append(@, Line("usage", NoErr))], 1)
    /\ UNCHANGED <<pvars, fsvars, bvars, outBefore, templates, calls>>

\* a flag set made with flag.ExitOnError: Parse reports the error on stderr
\* and calls os.Exit(2) itself
MainFlagError ==
    /\ cli.stage = "start"
    /\ input.cmd \in {"build", "serve", "new"}
    /\ ~input.flagsOk
    /\ cli' = Exit([cli EXCEPT !.stderr = Append(@, Line("flag error", "parse"))], 2)
    /\ UNCHANGED <<pvars, fsvars, bvars, outBefore, templates, calls>>

\* case "build": builder.Build(*buildConfig, *buildOutput) is called
MainBuild ==
    /\ cli.stage = "start"
    /\ input.cmd = "build"
    /\ input.flagsOk
    /\ pc = "idle"
    /\ pc' = "loadConfig"
    /\ cli' = [cli EXCEPT !.stage = "core", !.called = "Build"]
    /\ UNCHANGED <<pvars, fsvars, allPosts, publishedPosts, nextPost, buildErr, log,
                   outBefore, templates, calls>>

\* the return of Build, were main to print its message before looking at
\* the error
MainBuildReturn_PrintFirst ==
    /\ cli.stage = "core"
    /\ cli.called = "Build"
    /\ pc \in {"done", "failed"}
    /\ cli' = IF pc = "failed"
              THEN Exit([cli EXCEPT
                            !.stdout = Append(@, Line("Site built successfully!", NoErr)),
                            !.stderr = Append(@, Line("Error building site", buildErr.step))],
                        1)
              ELSE Exit([cli EXCEPT
                            !.stdout = @ \o << Line("Built posts", NoErr),
                                               Line("Site built successfully!", NoErr) >>],
                        0)
    /\ UNCHANGED <<pvars, fsvars, bvars, outBefore, templates, calls>>

\* Build has returned: its last line "Built %d posts" is printed on success
\* only; main prints the error and exits 1, or prints its message
MainBuildReturn ==
    /\ cli.stage = "core"
    /\ cli.called = "Build"
    /\ pc \in {"done", "failed"}
    /\ cli' = IF pc = "failed"
              THEN Exit([cli EXCEPT
                            !.stderr = Append(@, Line("Error building site", buildErr.step))],
                        1)
              ELSE Exit([cli EXCEPT
                            !.stdout = @ \o << Line("Built posts", NoErr),
                                               Line("Site built successfully!", NoErr) >>],
                        0)
    /\ UNCHANGED <<pvars, fsvars, bvars, outBefore, templates, calls>>

\* what builder.Serve(port) does: it returns at once without the directory
\* public, returns when ListenAndServe fails, or serves until it is stopped
ServeOutcomes == {"public directory does not exist", "listen fails", "serving"}

\* case "serve": Serve prints its two lines before it starts the server
MainServe ==
    /\ cli.stage = "start"
    /\ input.cmd = "serve"
    /\ input.flagsOk
    /\ \E outcome \in ServeOutcomes :
        /\ (outcome = "public directory does not exist") <=> ~out.exists
        /\ LET called == [cli EXCEPT !.called = "Serve"]
               serving == [called EXCEPT
                              !.stdout = @ \o << Line("Serving site at", NoErr),
                                                 Line("Press Ctrl+C to stop", NoErr) >>]
           IN  cli' =
                IF outcome = "public directory does not exist"
                THEN Exit([called EXCEPT
                             !.stderr = Append(@, Line("Error serving site", outcome))], 1)
                ELSE IF outcome = "listen fails"
                THEN Exit([serving EXCEPT
                             !.stderr = Append(@, Line("Error serving site", outcome))], 1)
                ELSE [serving EXCEPT !.stage = "serving"]
    /\ UNCHANGED <<pvars, fsvars, bvars, outBefore, templates, calls>>

\* case "new": the empty title is refused; otherwise builder.NewPost(title)
\* is called, which prints "Created new post" when the file is written
MainNew ==
    /\ cli.stage = "start"
    /\ input.cmd = "new"
    /\ input.flagsOk
    /\ IF input.title = <<>>
       THEN /\ cli' = Exit([cli EXCEPT
                              !.stderr = @ \o << Line("Error: post title is required", NoErr),
                                                 Line("usage of new", NoErr) >>], 1)
            /\ UNCHANGED <<raw, path, ppc, ret, contentDir>>
       ELSE \E canWrite \in {b \in BOOLEAN : b => contentDir.state = "ok"} :
              LET r == NewPost(input.title, input.now, canWrite)
                  called == [cli EXCEPT !.called = "NewPost"]
              IN  /\ ret' = r
                  /\ raw' = r.content
                  /\ path' = r.path
                  /\ ppc' = "NewPost"
                  /\ contentDir' =
                        IF canWrite
                        THEN [contentDir EXCEPT
                                !.entries = WriteFile(contentDir.entries, r.filename,
                                                      r.content)]
                        ELSE contentDir
                  /\ cli' =
                        IF r.err = NoErr
                        THEN Exit([called EXCEPT
                                     !.stdout = Append(@, Line("Created new post", NoErr))], 0)
                        ELSE Exit([called EXCEPT
                                     !.stderr = Append(@, Line("Error creating post", r.err))],
                                  1)
    /\ UNCHANGED <<input, readable, static, out, bvars, outBefore, templates, calls>>

NextCLI ==
    \/ MainUsage
    \/ MainFlagError
    \/ MainBuild
    \/ Next
    \/ MainBuildReturn
    \/ MainServe
    \/ MainNew

SpecCLI == InitCLI /\ [][NextCLI]_vars

(***************************************************************************)
(* Claims about the parser, checked under SpecParse                        *)
(***************************************************************************)
\* C5: Parse fails with the malformed-document error exactly when the raw
\* input holds fewer than two (non-overlapping, as bytes.Count counts them)
\* occurrences of the marker, and then it returns no post.
C5_MalformedIffFewerThanTwoMarkers ==
    Parsed =>
        /\ (ret.err = ErrInvalidFrontmatter) <=> (Count(raw, Marker) < 2)
        /\ (ret.err = ErrInvalidFrontmatter) => (ret.post = Nil)

\* a single marker, and Parse has failed with the malformed-document error
C5_Witness ==
    /\ Parsed
    /\ Count(raw, Marker) = 1
    /\ ret.err = ErrInvalidFrontmatter
    /\ ret.post = Nil

\* the offsets at which the marker stands at the start of a line
LineStartMarkers(s) ==
    {i \in 0..(Len(s) - 3) : SubSeq(s, i + 1, i + 3) = Marker /\ (i = 0 \/ s[i] = "\n")}

MinOf(S) == CHOOSE i \in S : \A j \in S : i <= j

\* C6: only a marker at the start of a line delimits the metadata block:
\* with fewer than two such markers Parse reports a malformed document,
\* otherwise the body is the text after the second of them.
C6_MarkerOnlyAtLineStart ==
    Parsed =>
        LET ls == LineStartMarkers(raw)
        IN  IF Cardinality(ls) < 2
            THEN ret.err = ErrInvalidFrontmatter
            ELSE LET second == MinOf(ls \ {MinOf(ls)})
                 IN  /\ ret.err # ErrInvalidFrontmatter
                     /\ ret.err = NoErr =>
                            ret.post.RawContent = TrimSpace(From(raw, second + 3))

\* the first 11 characters of s are NNNN-NN-NN-
IsDatePrefix(s) ==
    /\ Len(s) >= 11
    /\ \A i \in {1, 2, 3, 4, 6, 7, 9, 10} : IsDigit(s[i])
    /\ \A i \in {5, 8, 11} : s[i] = "-"

\* C7: the identifier is the base file name without its extension, less its
\* first 11 characters exactly when these are NNNN-NN-NN- with decimal digits.
C7_SlugStripsExactlyDatePrefix ==
    (Parsed /\ ret.err = NoErr) =>
        LET name == Base(path)
            stem == TrimSuffix(name, Ext(name))
        IN  ret.post.Slug = IF IsDatePrefix(stem) THEN From(stem, 11) ELSE stem

\* some field of the header the document is written with holds the marker
HeaderHasMarker(d, omit) ==
    \/ "title" \notin omit /\ Index(d.Title, Marker) >= 0
    \/ "description" \notin omit /\ Index(d.Description, Marker) >= 0
    \/ "tags" \notin omit /\ \E i \in 1..Len(d.Tags) : Index(d.Tags[i], Marker) >= 0

C9_MetadataRoundTrip ==
    (Parsed /\ input.kind = "doc" /\ input.omit = {}) =>
        /\ ret.err = NoErr
        /\ ret.post.Title = input.doc.Title
        /\ ret.post.Date = input.doc.Date
        /\ ret.post.Description = input.doc.Description
        /\ ret.post.Tags = input.doc.Tags
        /\ ret.post.Draft = input.doc.Draft


(***************************************************************************)
(* Claims about Build, checked under Spec                                  *)
(***************************************************************************)
HasStep(step) == \E i \in 1..Len(log) : log[i].step = step

LastStep == IF log = <<>> THEN "none" ELSE log[Len(log)].step

NotDraft(post) == ~post.Draft

\* C1: the filter step keeps exactly the posts that are not drafts: as many
\* as there are, in their original relative order, and no draft.
C1_FilterKeepsExactlyNonDrafts ==
    pc = "sort" =>
        LET kept == {i \in 1..Len(allPosts) : ~allPosts[i].Draft}
            n == Len(publishedPosts)
        IN  /\ n = Cardinality(kept)
            /\ \A i \in 1..n : ~publishedPosts[i].Draft
            /\ \E f \in [1..n -> kept] :
                /\ \A i \in 1..n : \A j \in 1..n : i < j => f[i] < f[j]
                /\ \A i \in 1..n : publishedPosts[i] = allPosts[f[i]]

\* three posts were parsed, a draft among them, and two were kept
C1_Witness ==
    /\ pc = "sort"
    /\ Len(allPosts) = 3
    /\ \E i \in 1..3 : allPosts[i].Draft
    /\ Len(publishedPosts) = 2

\* C2: after the sort step adjacent posts are in descending date order, and
\* the sorted corpus is a permutation of the filtered one.
C2_SortedDescendingPermutation ==
    HasStep("sort") =>
        LET filtered == SelectSeq(allPosts, NotDraft)
            n == Len(publishedPosts)
        IN  /\ \A i \in 1..(n - 1) : publishedPosts[i].Date >= publishedPosts[i + 1].Date
            /\ n = Len(filtered)
            /\ \E f \in [1..n -> 1..n] :
                /\ \A i \in 1..n : \A j \in 1..n : f[i] = f[j] => i = j
                /\ \A i \in 1..n : publishedPosts[i] = filtered[f[i]]

\* the sort has reordered three posts, two of the same date, the last one
\* of the zero timestamp
C2_Witness ==
    /\ HasStep("sort")
    /\ Len(publishedPosts) = 3
    /\ publishedPosts # SelectSeq(allPosts, NotDraft)
    /\ publishedPosts[1].Date = publishedPosts[2].Date
    /\ publishedPosts[3].Date = ZeroTime

\* the qualifying entries of content/posts that ParseFile rejects
BadEntries ==
    {i \in 1..Len(contentDir.entries) :
        LET entry == contentDir.entries[i]
        IN  /\ ~entry.isDir
            /\ HasSuffix(entry.name, MdSuffix)
            /\ ParseFile(entry.canRead, entry.raw, JoinPath(ContentDir, entry.name)).err
                    # NoErr}

Composed == HasStep("RenderIndex") \/ HasStep("RenderPost")

\* C3: when a qualifying file fails to parse, parseAllPosts returns an error
\* naming the path of that file and no posts, and Build fails without
\* composing a page.
C3_AllOrNothingAssembly ==
    /\ LastStep = "parseAllPosts" /\ contentDir.state = "ok" /\ BadEntries # {} =>
            /\ pc = "failed"
            /\ buildErr.step = "parsing posts"
            /\ buildErr.path =
                    JoinPath(ContentDir, contentDir.entries[MinOf(BadEntries)].name)
            /\ allPosts = <<>>
    /\ buildErr.step = "parsing posts" => pc = "failed" /\ ~Composed /\ allPosts = <<>>

\* a file was parsed, the next one was rejected, and Build has failed
C3_Witness ==
    /\ pc = "failed"
    /\ buildErr.step = "parsing posts"
    /\ contentDir.state = "ok"
    /\ Len(contentDir.entries) >= 2
    /\ buildErr.path = JoinPath(ContentDir, Name2)
    /\ contentDir.entries[1].name = Name1
    /\ allPosts = <<>>

\* C4: a source directory that does not exist gives no posts and no error;
\* any other failure to read it is an error.
C4_MissingDirectoryIsEmpty ==
    HasStep("parseAllPosts") =>
        /\ contentDir.state = "missing" =>
                allPosts = <<>> /\ buildErr.step # "parsing posts"
        /\ contentDir.state = "unreadable" =>
                /\ pc = "failed"
                /\ buildErr.step = "parsing posts"
                /\ buildErr.path = ContentDir
                /\ allPosts = <<>>

\* Build has run to its end without a content directory
C4_Witness ==
    /\ contentDir.state = "missing"
    /\ pc = "done"
    /\ allPosts = <<>>

\* the files of the output tree that are pages of posts
PostPages == {q \in DOMAIN out.files : out.files[q].template = PostTemplate}

\* the static tree holds a file at the path of a page Build composes
StaticShadowsPage ==
    \E i \in 1..Len(static.files) :
        \/ static.files[i] = IndexPath
        \/ \E j \in 1..Len(publishedPosts) :
                static.files[i] = PostPath(publishedPosts[j].Slug)

\* C10: after a successful Build the output tree holds index.html listing
\* the corpus, the page of every document of the corpus at
\* posts/<identifier>.html, one page per document, and no page of a draft.
\* Stated for the builds whose static tree holds no file at the path of a
\* composed page, where the asset copy cannot be what replaces a page.
C10_OutputTreeAfterBuild ==
    (pc = "done" /\ ~StaticShadowsPage) =>
        /\ IndexPath \in DOMAIN out.files
        /\ out.files[IndexPath].template = IndexName
        /\ out.files[IndexPath].data.Posts = publishedPosts
        /\ \A i \in 1..Len(publishedPosts) : ~publishedPosts[i].Draft
        /\ \A i \in 1..Len(publishedPosts) :
            /\ PostPath(publishedPosts[i].Slug) \in DOMAIN out.files
            /\ out.files[PostPath(publishedPosts[i].Slug)].template = PostTemplate
            /\ out.files[PostPath(publishedPosts[i].Slug)].data.Post = publishedPosts[i]
        /\ Cardinality(PostPages) = Len(publishedPosts)
        /\ \A q \in PostPages : ~out.files[q].data.Post.Draft

\* C11: when Build succeeds, no two posts of the corpus have the same slug.
C11_IdentifiersDistinct ==
    pc = "done" =>
        \A i \in 1..Len(publishedPosts) : \A j \in 1..Len(publishedPosts) :
            publishedPosts[i].Slug = publishedPosts[j].Slug => i = j

\* C12: with no post to publish Build writes the index page with an empty
\* listing and no page of a post; when the file system fails no step, no
\* step fails.
C12_EmptyCorpusBuilds ==
    (HasStep("sort") /\ publishedPosts = <<>>) =>
        /\ ~HasStep("RenderPost")
        /\ HasStep("RenderIndex") => PostPages = {}
        /\ pc = "copyStatic" =>
                /\ IndexPath \in DOMAIN out.files
                /\ out.files[IndexPath].template = IndexName
                /\ out.files[IndexPath].complete
                /\ out.files[IndexPath].data.Posts = <<>>
                /\ DOMAIN out.files = {IndexPath}
        /\ pc = "renderIndex" =>
                LET r == RenderIndex(out.files, publishedPosts, SiteConfig, IndexPath, "ok")
                IN  /\ r.err = NoBuildErr
                    /\ IndexPath \in DOMAIN r.files
                    /\ r.files[IndexPath].data.Posts = <<>>
        /\ pc = "failed" => buildErr.step \notin {"parsing posts", "rendering post"}

\* only drafts were parsed, and Build has come to its end with the index
\* page and nothing else
C12_Witness ==
    /\ pc = "done"
    /\ allPosts # <<>>
    /\ publishedPosts = <<>>
    /\ ~static.exists
    /\ DOMAIN out.files = {IndexPath}
    /\ out.files[IndexPath].data.Posts = <<>>

\* the steps of Build in the order of its code, for the posts it publishes
StepsOfBuild ==
    << [step |-> "loadConfig", path |-> <<>>],
       [step |-> "parseAllPosts", path |-> ContentDir],
       [step |-> "filterDrafts", path |-> <<>>],
       [step |-> "sort", path |-> <<>>],
       [step |-> "newRenderer", path |-> <<>>],
       [step |-> "clean", path |-> <<>>],
       [step |-> "RenderIndex", path |-> IndexPath] >>
    \o [i \in 1..Len(publishedPosts) |->
            [step |-> "RenderPost", path |-> PostPath(publishedPosts[i].Slug)]]
    \o << [step |-> "copyStatic", path |-> <<>>] >>

\* the step Build is at, and the step an error of Build comes from
StepAt(at) ==
    CASE at = "renderIndex" -> "RenderIndex"
      [] at = "renderPosts" -> "RenderPost"
      [] OTHER -> at

StepOfError(e) ==
    CASE e = "loading config" -> "loadConfig"
      [] e = "parsing posts" -> "parseAllPosts"
      [] e = "creating renderer" -> "newRenderer"
      [] e \in {"cleaning output directory", "creating output directory"} -> "clean"
      [] e = "rendering index" -> "RenderIndex"
      [] e = "rendering post" -> "RenderPost"
      [] e = "copying static files" -> "copyStatic"
      [] OTHER -> "none"

\* C13: the steps of Build run once each in the order load configuration,
\* assemble, clean the output directory, index page, one page per post in
\* corpus order, static copy; a step starts only when the one before it
\* succeeded, and the first failure ends the build.
C13_StrictlySequential ==
    /\ Len(log) <= Len(StepsOfBuild)
    /\ \A i \in 1..Len(log) : log[i] = StepsOfBuild[i]
    /\ pc = "done" => log = StepsOfBuild /\ buildErr = NoBuildErr
    /\ pc = "failed" => log # <<>> /\ LastStep = StepOfError(buildErr.step)
    /\ pc \notin {"done", "failed"} =>
            /\ buildErr = NoBuildErr
            /\ Len(log) < Len(StepsOfBuild)
            /\ StepsOfBuild[Len(log) + 1].step = StepAt(pc)

\* the page of the second of three posts failed: the third page and the
\* static copy were never started
C13_Witness ==
    /\ pc = "failed"
    /\ buildErr.step = "rendering post"
    /\ Len(publishedPosts) = 3
    /\ nextPost = 2
    /\ static.exists
    /\ Len(log) = 9

\* C14: when Build fails loading the configuration or assembling the
\* corpus, outputDir is exactly as it was when Build was called.
C14_EarlyFailureLeavesOutput ==
    (pc = "failed" /\ buildErr.step \in {"loading config", "parsing posts"}) =>
        out = outBefore

\* a post failed to parse, and the site built earlier is still there
C14_Witness ==
    /\ pc = "failed"
    /\ buildErr.step = "parsing posts"
    /\ contentDir.state = "ok"
    /\ outBefore.exists
    /\ PostPath(OldSlug) \in DOMAIN out.files
    /\ out.files[PostPath(OldSlug)] = OldPage

\* the file at q of the output tree is one this Build wrote
WrittenByBuild(q) ==
    \/ q = IndexPath /\ out.files[q] = RenderIndex(<<>>, publishedPosts, SiteConfig, q, "ok").files[q]
    \/ \E i \in 1..Len(publishedPosts) :
            /\ q = PostPath(publishedPosts[i].Slug)
            /\ out.files[q] = RenderPost(<<>>, publishedPosts[i], SiteConfig, q, "ok").files[q]
    \/ \E i \in 1..Len(static.files) : q = static.files[i] /\ out.files[q] = StaticFile(q)

\* C15: after a successful Build the output tree holds only files this
\* Build wrote; every file that was there before is gone.
C15_OnlyFilesOfLastBuild ==
    pc = "done" =>
        /\ \A q \in DOMAIN out.files : WrittenByBuild(q)
        /\ \A q \in DOMAIN outBefore.files :
                q \in DOMAIN out.files => out.files[q] # outBefore.files[q]

\* the output directory held the page of a post that is no longer there;
\* Build succeeded with another post and the old page is gone
C15_Witness ==
    /\ pc = "done"
    /\ PostPath(OldSlug) \in DOMAIN outBefore.files
    /\ PostPath(OldSlug) \notin DOMAIN out.files
    /\ Len(publishedPosts) >= 1
    /\ IndexPath \in DOMAIN out.files
    /\ out.files[IndexPath] # OldPage

\* C16: without a static directory copyStatic returns no error and writes
\* nothing, and Build succeeds with the composed pages only.
C16_MissingStaticIsNoError ==
    ~static.exists =>
        /\ \A failAt \in 0..1 :
                copyStatic(static, out.files, failAt) = [files |-> out.files, err |-> NoBuildErr]
        /\ HasStep("copyStatic") =>
                /\ pc = "done"
                /\ buildErr = NoBuildErr
                /\ DOMAIN out.files =
                        {IndexPath}
                        \cup {PostPath(publishedPosts[i].Slug) : i \in 1..Len(publishedPosts)}
                /\ \A q \in DOMAIN out.files :
                        /\ out.files[q].complete
                        /\ out.files[q].template \in {IndexName, PostTemplate}

\* Build has succeeded without a static directory: the index page and the
\* pages of two posts are all there is
C16_Witness ==
    /\ pc = "done"
    /\ ~static.exists
    /\ Len(publishedPosts) = 2
    /\ Cardinality(DOMAIN out.files) = 3

\* C17: a failure of the static copy leaves the index page and the pages
\* of the posts as they were written, and does not make Build fail.
C17_AssetCopyFailureKeepsBuild ==
    buildErr.step = "copying static files" =>
        /\ pc # "failed"
        /\ IndexPath \in DOMAIN out.files
        /\ out.files[IndexPath].template = IndexName
        /\ \A i \in 1..Len(publishedPosts) :
                /\ PostPath(publishedPosts[i].Slug) \in DOMAIN out.files
                /\ out.files[PostPath(publishedPosts[i].Slug)].template = PostTemplate


(***************************************************************************)
(* Claims about the renderer, checked under SpecCompose                    *)
(***************************************************************************)
\* the calls that created the file at q, in the order they were made
Writers(q) ==
    {i \in 1..Len(calls) :
        calls[i].path = q /\ calls[i].outcome \notin {"mkdir fails", "create fails"}}

MaxOf(S) == CHOOSE i \in S : \A j \in S : j <= i

\* the page of a call: the layout with the block of the content template
\* of the function called, over the data of its argument
OwnPage(c) ==
    IF c.fn = "renderIndex"
    THEN [layout |-> BaseName, template |-> PostsTemplate,
          data |-> [Site |-> SiteConfig, Post |-> Nil, Posts |-> c.arg,
                    Title |-> SiteConfig.Title],
          complete |-> TRUE]
    ELSE [layout |-> BaseName, template |-> PostTemplate,
          data |-> [Site |-> SiteConfig, Post |-> c.arg, Posts |-> <<>>,
                    Title |-> c.arg.Title],
          complete |-> TRUE]

FailsAfterCreate == {"clone fails", "parse fails", "execute fails"}

\* C19: when cloning the layout, parsing the content template or executing
\* fails, renderToFile returns an error and leaves the file it created: the
\* file at outputPath is truncated, whatever was there before.
C19_FailedComposeLeavesFile ==
    /\ \A q \in ComposePaths : \A outcome \in FailsAfterCreate :
            LET r == ssg_renderToFile(templates, out.files, PostTemplate, Nil, q, outcome)
            IN  /\ r.err.step # "nil"
                /\ q \in DOMAIN r.files
                /\ r.files[q] = Truncated
    /\ calls # <<>> =>
            LET c == calls[Len(calls)]
            IN  /\ c.outcome \in FailsAfterCreate =>
                    /\ c.err # "nil"
                    /\ c.path \in DOMAIN out.files
                    /\ out.files[c.path] = Truncated
                    /\ ~out.files[c.path].complete
                /\ c.outcome \in {"mkdir fails", "create fails"} => c.err # "nil"

\* a page was composed at a path, and a second call for the same path
\* failed executing: the complete page is lost
C19_Witness ==
    /\ Len(calls) = 2
    /\ calls[1].outcome = "ok"
    /\ calls[2].path = calls[1].path
    /\ calls[2].outcome = "execute fails"
    /\ calls[2].err = "executing template"
    /\ out.files[calls[2].path] = Truncated


(***************************************************************************)
(* Claims about NewPost, checked under SpecNewPost                         *)
(***************************************************************************)
\* what one character of a title gives in the slug: a space one hyphen, a
\* letter its lower case, a digit or a hyphen itself, anything else nothing
SlugOfChar(c) ==
    IF c = " " THEN <<"-">>
    ELSE IF IsSlugChar(ToLowerChar(c)) THEN <<ToLowerChar(c)>>
    ELSE <<>>

RECURSIVE SlugOfTitle(_)
SlugOfTitle(t) == IF t = <<>> THEN <<>> ELSE SlugOfChar(Head(t)) \o SlugOfTitle(Tail(t))

IsHyphenOrSpace(c) == c = "-" \/ c = " "

IsHyphen(c) == c = "-"

\* C20: the slug of NewPost is the title in lower case with every space
\* replaced by one hyphen (k spaces give k hyphens) and every character
\* outside [a-z0-9-] removed; it holds characters of [a-z0-9-] only.
C20_NewPostSlug ==
    ppc = "NewPost" =>
        /\ ret.slug = SlugOfTitle(input.title)
        /\ \A i \in 1..Len(ret.slug) : IsSlugChar(ret.slug[i])
        /\ Len(SelectSeq(ret.slug, IsHyphen)) = Len(SelectSeq(input.title, IsHyphenOrSpace))

\* a title with an upper-case letter, two spaces in a row and a character
\* that is removed
C20_Witness ==
    /\ ppc = "NewPost"
    /\ input.title = <<"A", " ", " ", "!">>
    /\ ret.slug = <<"a", "-", "-">>


\* text holds line as a whole line after its first
HasLine(text, line) == Index(text, NL \o line \o NL) >= 0

TagsLine == KeyTags \o <<":", " ", "[", "]">>

DraftLine == KeyDraft \o <<":", " ", "t", "r", "u", "e">>

\* C21: NewPost on an existing, empty content/posts writes exactly one file,
\* named <date>-<slug>.md, that holds the title, an empty tag list and the
\* draft flag set to true, and touches nothing else.
C21_NewPostWritesOneDraft ==
    (ppc = "NewPost" /\ ret.err = NoErr /\ input.dir.entries = <<>>) =>
        /\ contentDir.state = "ok"
        /\ Len(contentDir.entries) = 1
        /\ LET e == contentDir.entries[1]
           IN  /\ e.name = FormatDate(input.now) \o <<"-">> \o SlugOfTitle(input.title)
                            \o MdSuffix
               /\ ~e.isDir
               /\ HasLine(e.raw, KeyTitle \o <<":", " ">> \o input.title)
               /\ HasLine(e.raw, TagsLine)
               /\ HasLine(e.raw, DraftLine)
        /\ static = [exists |-> FALSE, files |-> <<>>]
        /\ out = [exists |-> FALSE, files |-> <<>>]

\* the title "A b" written into the empty directory in year 2
C21_Witness ==
    /\ ppc = "NewPost"
    /\ ret.err = NoErr
    /\ input.dir = [state |-> "ok", entries |-> <<>>]
    /\ input.title = <<"A", " ", "b">>
    /\ Len(contentDir.entries) = 1
    /\ contentDir.entries[1].name = FormatDate(2) \o <<"-", "a", "-", "b">> \o MdSuffix

\* C23: the file NewPost writes always parses back to a document with the
\* same title and the draft flag true, whatever characters the title holds.
C23_NewPostFileParsesBack ==
    (ppc = "NewPost" /\ ret.err = NoErr) =>
        LET r == Parse(raw, path)
        IN  /\ r.err = NoErr
            /\ r.post.Title = input.title
            /\ r.post.Draft

\* C27: the identifier generateSlug derives from the file name NewPost
\* writes is the slug NewPost computed, the empty slug included.
C27_FileNameGivesSlug ==
    (ppc = "NewPost" /\ ret.err = NoErr) => generateSlug(ret.path) = ret.slug

\* C28: NewPost never replaces a file that is already in content/posts.
C28_NewPostKeepsExistingFiles ==
    ppc = "NewPost" =>
        \A i \in 1..Len(input.dir.entries) :
            \E j \in 1..Len(contentDir.entries) :
                contentDir.entries[j] = input.dir.entries[i]

\* the corpus Build publishes from content/posts as it was before NewPost
PublishedBefore == SortSlice(filterDrafts(parseAllPosts(input.dir, ContentDir).posts))

\* C22: when Build follows NewPost with the created file unedited, the new
\* document is not published: Build is not stopped by it, the corpus and
\* the index are those of the directory as it was before NewPost, and the
\* pages of posts are the pages of that corpus.
C22_CreatedDraftNotPublished ==
    (ppc = "NewPost" /\ ret.err = NoErr) =>
        /\ buildErr.step # "parsing posts"
        /\ HasStep("sort") => publishedPosts = PublishedBefore
        /\ pc = "done" =>
            /\ out.files[IndexPath].data.Posts = PublishedBefore
            /\ PostPages = {PostPath(PublishedBefore[i].Slug) :
                                i \in 1..Len(PublishedBefore)}

\* the lines that report success
SuccessMessages == {"Site built successfully!", "Built posts", "Created new post"}

PrintedSuccess == \E i \in 1..Len(cli.stdout) : cli.stdout[i].msg \in SuccessMessages

\* the core operation main called has returned an error
CoreFailed ==
    \/ cli.called = "Build" /\ pc = "failed"
    \/ cli.called = "NewPost" /\ ret.err # NoErr
    \/ cli.called = "Serve" /\ cli.stage = "exited"

FailureMessage ==
    IF cli.called = "Build" THEN "Error building site"
    ELSE IF cli.called = "Serve" THEN "Error serving site"
    ELSE "Error creating post"

AfterFirstMarker == From(raw, Index(raw, Marker) + Len(Marker))

\* the text between the first and the second occurrence
MetadataBlock == Upto(AfterFirstMarker, Index(AfterFirstMarker, Marker))

\* the text after the second occurrence
AfterSecondMarker ==
    From(AfterFirstMarker, Index(AfterFirstMarker, Marker) + Len(Marker))

\* C25: only the first two occurrences of the marker delimit a document: the
\* header is decoded from the text between them, every later occurrence
\* stays in the body, and RawContent is the text after the second
\* occurrence with the white space at its ends trimmed.
C25_FirstTwoMarkersDelimit ==
    (Parsed /\ Count(raw, Marker) >= 2) =>
        /\ ret.err # ErrInvalidFrontmatter
        /\ (ret.err = ErrParsingFrontmatter) <=> (Unmarshal(MetadataBlock).err # NoErr)
        /\ ret.err = NoErr =>
            /\ ret.post.RawContent = TrimSpace(AfterSecondMarker)
            /\ Count(ret.post.RawContent, Marker) = Count(AfterSecondMarker, Marker)
            /\ ret.post.Title = Unmarshal(MetadataBlock).fm.Title
            /\ ret.post.Draft = Unmarshal(MetadataBlock).fm.Draft

\* a document with a horizontal rule in its body was parsed, and the rule
\* is in RawContent
C25_Witness ==
    /\ Parsed
    /\ input.kind = "doc"
    /\ ret.err = NoErr
    /\ Count(raw, Marker) = 3
    /\ ret.post.RawContent = <<"x", "\n", "-", "-", "-", "\n", "y">>

\* the entries of content/posts that are files with a name ending in .md
Qualifying ==
    {i \in 1..Len(contentDir.entries) :
        ~contentDir.entries[i].isDir /\ HasSuffix(contentDir.entries[i].name, MdSuffix)}

\* C26: parseAllPosts returns one document per entry of the directory that
\* is not a directory and whose name ends in .md, drafts included, in the
\* order of the entries; other files and subdirectories, a directory named
\* sub.md included, are neither parsed nor a reason to fail.
C26_OneDocumentPerMarkdownFile ==
    (LastStep = "parseAllPosts" /\ contentDir.state = "ok" /\ BadEntries = {}) =>
        LET n == Len(allPosts)
        IN  /\ pc = "filterDrafts"
            /\ n = Cardinality(Qualifying)
            /\ \E f \in [1..n -> Qualifying] :
                /\ \A i \in 1..n : \A j \in 1..n : i < j => f[i] < f[j]
                /\ \A i \in 1..n :
                    LET entry == contentDir.entries[f[i]]
                    IN  allPosts[i] = ParseFile(entry.canRead, entry.raw,
                                                JoinPath(ContentDir, entry.name)).post

\* a directory with three documents, one of them a draft, a text file and
\* a subdirectory named sub.md was read, and three posts were returned
C26_Witness ==
    /\ LastStep = "parseAllPosts"
    /\ pc = "filterDrafts"
    /\ Len(contentDir.entries) = 5
    /\ \E i \in 1..5 : contentDir.entries[i].name = NameTxt
    /\ \E i \in 1..5 : contentDir.entries[i].name = NameSub /\ contentDir.entries[i].isDir
    /\ Len(allPosts) = 3
    /\ \E i \in 1..3 : allPosts[i].Draft

\* the paths of the pages Build composes
ComposedPaths ==
    {IndexPath} \cup {PostPath(publishedPosts[i].Slug) : i \in 1..Len(publishedPosts)}

\* the file at q is a page composed by RenderIndex or RenderPost
IsComposedPage(q) ==
    \/ q = IndexPath
       /\ out.files[q] = RenderIndex(<<>>, publishedPosts, SiteConfig, q, "ok").files[q]
    \/ \E i \in 1..Len(publishedPosts) :
        /\ q = PostPath(publishedPosts[i].Slug)
        /\ out.files[q] = RenderPost(<<>>, publishedPosts[i], SiteConfig, q, "ok").files[q]

\* C29: after a successful Build, index.html and every posts/<slug>.html
\* of the output directory hold a composed page, also when the static tree
\* has a file at the same relative path: the asset copy replaces no page.
C29_PagesSurviveAssetCopy ==
    pc = "done" =>
        \A q \in ComposedPaths : q \in DOMAIN out.files /\ IsComposedPage(q)

StepsBeforeClean == <<"loadConfig", "parseAllPosts", "filterDrafts", "sort", "newRenderer">>

\* C30: the templates are loaded after the corpus is assembled and before
\* the output directory is deleted: when loading them fails Build returns
\* the error with the output directory as it found it, and the directory
\* is changed only after configuration, corpus and templates have loaded.
C30_TemplatesLoadBeforeDeletion ==
    /\ buildErr.step = "creating renderer" =>
            /\ pc = "failed"
            /\ out = outBefore
            /\ LastStep = "newRenderer"
    /\ HasStep("newRenderer") =>
            /\ Len(log) >= Len(StepsBeforeClean)
            /\ \A i \in 1..Len(StepsBeforeClean) : log[i].step = StepsBeforeClean[i]
    /\ (HasStep("clean") \/ out # outBefore) =>
            /\ Len(log) > Len(StepsBeforeClean)
            /\ \A i \in 1..Len(StepsBeforeClean) : log[i].step = StepsBeforeClean[i]
            /\ log[Len(StepsBeforeClean) + 1].step = "clean"
            /\ buildErr.step \notin {"loading config", "parsing posts", "creating renderer"}

\* the templates failed to load after a corpus of one post or more was
\* assembled, and the pages of the earlier build are still there
C30_Witness ==
    /\ pc = "failed"
    /\ buildErr.step = "creating renderer"
    /\ Len(publishedPosts) >= 1
    /\ outBefore.exists
    /\ PostPath(OldSlug) \in DOMAIN out.files
    /\ out = outBefore

=============================================================================
